---- MODULE Spec2Model ----
(***************************************************************************)
(* A model of "Prototype 2/danger.c": the free-space wiper.                *)
(*                                                                         *)
(* main() parses its arguments and calls wipe_free_space(), which probes   *)
(* the filesystem and then, for every pass and each of the four patterns,  *)
(* creates <path>/shred_temp_<pass>_<pattern>.dat, writes generated chunks *)
(* to it until write() reports zero or an error, closes it and removes it. *)
(*                                                                         *)
(* A run is one process executing main(); run[self] is the state of that   *)
(* process: its locals, its position, and what it has done so far. Of      *)
(* outbuf only the allocation is kept: its bytes are read by nothing but   *)
(* the copy that follows their encryption. files is the target directory,  *)
(* which all runs share. The system calls and library calls (statvfs,      *)
(* open, malloc, the EVP_* calls, write, remove) succeed or fail as the    *)
(* environment decides. Sizes are scaled down: a chunk holds 1..MaxChunk   *)
(* bytes (the program's is 512 MiB) and a cipher block BlockSize bytes     *)
(* (AES has 16), outbuf having room for the chunk and two blocks.          *)
(***************************************************************************)
EXTENDS Integers, Sequences, FiniteSets, TLC

\* ------------------------------------------------------------------ bounds

\* The largest chunk size (bytes) a run is started with.
MaxChunk == 2
\* The cipher's block size in bytes (AES: 16), scaled down with the chunks.
BlockSize == 2
\* The number of writes to one temp file that can succeed before the disk is full.
MaxWrites == 2
\* The number of failures the environment injects into one run.
MaxFaults == 1

\* --------------------------------------------------------------- constants

\* passes when argv[2] is absent.
DefaultPasses == 3
\* the number of entries of patterns[].
NumPatterns == 4

Procs == {1, 2}

\* Values rand() % 256 is sampled from.
RandBytes == {0, 255}

\* An uninitialised byte of a freshly malloc'ed buffer.
Uninit == -1

NoFd == <<>>

\* Sample values of argv[2], as sequences of characters.
ArgSamples ==
    { <<"1">>, <<"0">>, <<"a", "b">>, <<"-", "1">>, <<"1", "x">>, <<>> }

VARIABLES run, files

vars == <<run, files>>

\* ------------------------------------------------------------------- atoi

IsDigit(c) == c \in {"0", "1", "2", "3", "4", "5", "6", "7", "8", "9"}

DigitVal(c) ==
    CASE c = "0" -> 0 [] c = "1" -> 1 [] c = "2" -> 2 [] c = "3" -> 3
      [] c = "4" -> 4 [] c = "5" -> 5 [] c = "6" -> 6 [] c = "7" -> 7
      [] c = "8" -> 8 [] c = "9" -> 9

RECURSIVE AtoiDigits(_, _, _)
AtoiDigits(s, i, acc) ==
    IF i > Len(s) \/ ~IsDigit(s[i]) THEN acc
    ELSE AtoiDigits(s, i + 1, acc * 10 + DigitVal(s[i]))

RECURSIVE SkipSpace(_, _)
SkipSpace(s, i) ==
    IF i <= Len(s) /\ s[i] = " " THEN SkipSpace(s, i + 1) ELSE i

\* atoi(): leading blanks, an optional sign, then digits up to the first
\* character that is no digit; 0 when there is no digit.
Atoi(s) ==
    LET i == SkipSpace(s, 1)
    IN  IF i <= Len(s) /\ s[i] = "-" THEN 0 - AtoiDigits(s, i + 1, 0)
        ELSE IF i <= Len(s) /\ s[i] = "+" THEN AtoiDigits(s, i + 1, 0)
        ELSE AtoiDigits(s, i, 0)

\* ------------------------------------------------------------- encryption

\* PKCS padding: 1..BlockSize bytes, each holding the number of pad bytes.
PadLen(len) == BlockSize - (len % BlockSize)

Padded(data) == data \o [i \in 1..PadLen(Len(data)) |-> PadLen(Len(data))]

\* The length EVP_EncryptUpdate and EVP_EncryptFinal_ex produce together.
CipherLen(len) == len + PadLen(len)

\* A chained block cipher: each ciphertext byte depends on the plaintext
\* byte, the key and the byte one block earlier (the iv for the first block).
RECURSIVE CbcFrom(_, _, _, _)
CbcFrom(pt, key, iv, acc) ==
    LET n == Len(acc) + 1
        prev == IF n <= BlockSize THEN iv ELSE acc[n - BlockSize]
    IN  IF n > Len(pt) THEN acc
        ELSE CbcFrom(pt, key, iv, Append(acc, (pt[n] + prev + key) % 256))

Ciphertext(data, key, iv) == CbcFrom(Padded(data), key, iv, <<>>)

\* Where encrypt_chunk can fail.
EncFailPoints == {"new", "init", "update", "final"}

\* encrypt_chunk(data, len, out, key, iv) when the call named by fail fails
\* ("none": no call fails): the value returned, the bytes written to out,
\* and whether the cipher context is still allocated on return.
encrypt_chunk(data, key, iv, fail) ==
    IF fail = "new" THEN [ret |-> -1, out |-> <<>>, ctxLive |-> FALSE]
    ELSE IF fail \in {"init", "update", "final"}
         THEN [ret |-> -1, out |-> <<>>, ctxLive |-> TRUE]
    ELSE [ret |-> CipherLen(Len(data)), out |-> Ciphertext(data, key, iv),
          ctxLive |-> FALSE]

\* ---------------------------------------------------------------- helpers

\* snprintf(filename, ..., "%s/shred_temp_%d_%d.dat", path, p, pat)
Filename(p, pat) == <<p, pat>>

Exists(name) == name \in DOMAIN files

\* The capacity of outbuf: malloc(chunk_size + 32), two cipher blocks.
OutCap(chunk_size) == chunk_size + 2 * BlockSize

\* memset(buf, v, chunk_size)
Memset(v, chunk_size) == [i \in 1..chunk_size |-> v]

\* The buffers the loop "buf[i] = rand() % 256" can leave.
RandomFills(chunk_size) == [1..chunk_size -> RandBytes]

\* PatternFills with the "ones" branch filling 0xFE instead of 0xFF.
PatternFillsOnesOffByOne(pat, chunk_size) ==
    CASE pat = 0 -> {Memset(0, chunk_size)}
      [] pat = 1 -> {Memset(254, chunk_size)}
      [] pat = 2 -> RandomFills(chunk_size)
      [] pat = 3 -> RandomFills(chunk_size)

\* The buffers the pattern's branch of the write loop can leave in buf.
PatternFills(pat, chunk_size) ==
    CASE pat = 0 -> {Memset(0, chunk_size)}
      [] pat = 1 -> {Memset(255, chunk_size)}
      [] pat = 2 -> RandomFills(chunk_size)
      [] pat = 3 -> RandomFills(chunk_size)

\* memcpy(buf, outbuf, n): the bytes that land inside buf's chunk_size bytes.
MemcpyInto(buf, outbuf, n) ==
    [i \in 1..Len(buf) |-> IF i <= n THEN outbuf[i] ELSE buf[i]]

Set(self, r) == run' = [run EXCEPT ![self] = r]

Live(self) == run[self].pc \notin {"off", "exited", "crashed"}

CanFail(self) == run[self].faults < MaxFaults

\* ------------------------------------------------------------------- Init

\* A process that has not yet entered main(). Besides the locals of main and
\* wipe_free_space: fdTable, the descriptors the process holds open; got,
\* whether the two malloc calls of the iteration returned a buffer; and what
\* the run has done so far: openLog, the names passed to open, in order;
\* openOk and closes, the numbers of successful open calls and of close
\* calls; unremoved, the files it created and has not yet passed to remove.
Fresh(argc, argv2, chunk) ==
    [pc |-> "main", argc |-> argc, argv2 |-> argv2, chunkArg |-> chunk,
     exitCode |-> -1, passes |-> 0, chunk_size |-> 0, p |-> 0, pat |-> 0,
     fd |-> NoFd, bufAlloc |-> FALSE, outAlloc |-> FALSE,
     buf |-> <<>>, key |-> Uninit, iv |-> Uninit,
     enc_size |-> 0, written |-> 0, okWrites |-> 0,
     opens |-> 0, probed |-> FALSE, failed |-> {}, faults |-> 0,
     heapCorrupt |-> FALSE, liveCtx |-> 0,
     fdTable |-> {}, got |-> <<FALSE, FALSE>>,
     openLog |-> <<>>, openOk |-> 0, closes |-> 0, unremoved |-> {}]

Off == [Fresh(0, <<>>, 1) EXCEPT !.pc = "off"]

\* The invocations: no argument, a path, or a path and a pass count.
Invocations ==
    { Fresh(a[1], a[2], c) :
        a \in ({<<1, <<>> >>, <<2, <<>> >>} \cup {<<3, s>> : s \in ArgSamples}),
        c \in 1..MaxChunk }

\* The target directory before the run: empty, or holding a file that bears
\* a temp file's name. A file holds the content it had before the run
\* ("original") or what a run left in it since truncating it ("temp").
InitialDirs == { [n \in {} |-> "temp"], (Filename(0, 1) :> "original") }

Init ==
    /\ \E r \in Invocations : run = (1 :> r) @@ (2 :> Off)
    /\ files \in InitialDirs

\* ------------------------------------------------------------------- main

\* main, lines 111-116: too few arguments.
MainUsage(self) ==
    /\ run[self].pc = "main"
    /\ run[self].argc < 2
    /\ Set(self, [run[self] EXCEPT !.pc = "exited", !.exitCode = 1])
    /\ UNCHANGED files

\* main, lines 118-123: the arguments, then the call of wipe_free_space.
MainStart(self) ==
    /\ run[self].pc = "main"
    /\ run[self].argc >= 2
    /\ Set(self, [run[self] EXCEPT
            !.pc = "statvfs",
            !.passes = IF run[self].argc > 2 THEN Atoi(run[self].argv2)
                       ELSE DefaultPasses,
            !.chunk_size = run[self].chunkArg])
    /\ UNCHANGED files

\* -------------------------------------------------------- wipe_free_space

\* Statvfs with a failed probe ending the process with status 1.
StatvfsExitsFailure(self) ==
    /\ run[self].pc = "statvfs"
    /\ \/ Set(self, [run[self] EXCEPT !.pc = "pass_loop", !.probed = TRUE,
                                      !.p = 0])
       \/ /\ CanFail(self)
          /\ Set(self, [run[self] EXCEPT
                !.pc = "exited", !.exitCode = 1, !.probed = TRUE,
                !.failed = @ \cup {"statvfs"}, !.faults = @ + 1])
    /\ UNCHANGED files

\* lines 33-39: the probe; on failure the function returns, and main
\* returns 0 (line 124).
Statvfs(self) ==
    /\ run[self].pc = "statvfs"
    /\ \/ Set(self, [run[self] EXCEPT !.pc = "pass_loop", !.probed = TRUE,
                                      !.p = 0])
       \/ /\ CanFail(self)
          /\ Set(self, [run[self] EXCEPT
                !.pc = "exited", !.exitCode = 0, !.probed = TRUE,
                !.failed = @ \cup {"statvfs"}, !.faults = @ + 1])
    /\ UNCHANGED files

\* line 41: the pass loop's test; after the last pass the function returns
\* and main returns 0.
PassLoop(self) ==
    /\ run[self].pc = "pass_loop"
    /\ IF run[self].p < run[self].passes
       THEN Set(self, [run[self] EXCEPT !.pc = "pat_loop", !.pat = 0])
       ELSE Set(self, [run[self] EXCEPT !.pc = "exited", !.exitCode = 0])
    /\ UNCHANGED files

\* line 45: the pattern loop's test; after the last pattern, p++.
PatLoop(self) ==
    /\ run[self].pc = "pat_loop"
    /\ IF run[self].pat < NumPatterns
       THEN Set(self, [run[self] EXCEPT !.pc = "open"])
       ELSE Set(self, [run[self] EXCEPT !.pc = "pass_loop", !.p = @ + 1])
    /\ UNCHANGED files

\* Open with a failed open tried again instead of skipped.
OpenRetries(self) ==
    LET name == Filename(run[self].p, run[self].pat)
    IN  /\ run[self].pc = "open"
        /\ \/ /\ Set(self, [run[self] EXCEPT
                    !.pc = "malloc", !.fd = name, !.opens = @ + 1,
                    !.fdTable = @ \cup {name}, !.openOk = @ + 1,
                    !.openLog = Append(@, name),
                    !.unremoved = @ \cup {name}])
              /\ files' = (name :> "temp") @@ files
           \/ /\ CanFail(self)
              /\ Set(self, [run[self] EXCEPT
                    !.pc = "open", !.opens = @ + 1,
                    !.openLog = Append(@, name),
                    !.failed = @ \cup {"open"}, !.faults = @ + 1])
              /\ UNCHANGED files

\* lines 51-55: open(filename, O_CREAT | O_WRONLY | O_TRUNC, 0600).
Open(self) ==
    LET name == Filename(run[self].p, run[self].pat)
    IN  /\ run[self].pc = "open"
        /\ \/ /\ Set(self, [run[self] EXCEPT
                    !.pc = "malloc", !.fd = name, !.opens = @ + 1,
                    !.fdTable = @ \cup {name}, !.openOk = @ + 1,
                    !.openLog = Append(@, name),
                    !.unremoved = @ \cup {name}])
              /\ files' = (name :> "temp") @@ files
           \/ /\ CanFail(self)
              /\ Set(self, [run[self] EXCEPT
                    !.pc = "pat_next", !.opens = @ + 1,
                    !.openLog = Append(@, name),
                    !.failed = @ \cup {"open"}, !.faults = @ + 1])
              /\ UNCHANGED files

\* lines 62-63 without the free(buf): only outbuf is released.
AllocFailureFreesOutOnly(gotBuf, gotOut) ==
    [bufAlloc |-> gotBuf, outAlloc |-> FALSE]

\* lines 62-63, free(buf); free(outbuf), of which free(NULL) does nothing:
\* which of the two buffers are still allocated afterwards.
AllocFailureFrees(gotBuf, gotOut) ==
    [bufAlloc |-> FALSE, outAlloc |-> FALSE]

\* Malloc without the close(fd) of the allocation-failure path.
MallocFailureKeepsFd(self) ==
    /\ run[self].pc = "malloc"
    /\ \/ Set(self, [run[self] EXCEPT
            !.pc = "fill", !.bufAlloc = TRUE, !.outAlloc = TRUE,
            !.got = <<TRUE, TRUE>>,
            !.buf = Memset(Uninit, run[self].chunk_size),
            !.written = 0, !.okWrites = 0])
       \/ /\ CanFail(self)
          /\ \E gotBuf, gotOut \in BOOLEAN :
                /\ ~(gotBuf /\ gotOut)
                /\ Set(self, [run[self] EXCEPT
                      !.pc = "pat_next",
                      !.got = <<gotBuf, gotOut>>,
                      !.bufAlloc = AllocFailureFrees(gotBuf, gotOut).bufAlloc,
                      !.outAlloc = AllocFailureFrees(gotBuf, gotOut).outAlloc,
                      !.failed = @ \cup {"malloc"}, !.faults = @ + 1])
    /\ UNCHANGED files

\* lines 57-67: the two buffers; when either is missing the descriptor is
\* closed, both pointers are freed and the iteration is left.
Malloc(self) ==
    /\ run[self].pc = "malloc"
    /\ \/ Set(self, [run[self] EXCEPT
            !.pc = "fill", !.bufAlloc = TRUE, !.outAlloc = TRUE,
            !.got = <<TRUE, TRUE>>,
            !.buf = Memset(Uninit, run[self].chunk_size),
            !.written = 0, !.okWrites = 0])
       \/ /\ CanFail(self)
          /\ \E gotBuf, gotOut \in BOOLEAN :
                /\ ~(gotBuf /\ gotOut)
                /\ Set(self, [run[self] EXCEPT
                      !.pc = "pat_next", !.fd = NoFd,
                      !.fdTable = @ \ {run[self].fd}, !.closes = @ + 1,
                      !.got = <<gotBuf, gotOut>>,
                      !.bufAlloc = AllocFailureFrees(gotBuf, gotOut).bufAlloc,
                      !.outAlloc = AllocFailureFrees(gotBuf, gotOut).outAlloc,
                      !.failed = @ \cup {"malloc"}, !.faults = @ + 1])
    /\ UNCHANGED files

\* lines 69-76: the pattern's branch fills buf; the "encrypted" branch goes
\* on to draw a key and an iv.
Fill(self) ==
    /\ run[self].pc = "fill"
    /\ \E b \in PatternFills(run[self].pat, run[self].chunk_size) :
          IF run[self].pat = 3
          THEN Set(self, [run[self] EXCEPT !.pc = "key", !.buf = b])
          ELSE Set(self, [run[self] EXCEPT !.pc = "write", !.buf = b])
    /\ UNCHANGED files

\* lines 77-78: unsigned char key[32], filled from rand().
DrawKey(self) ==
    /\ run[self].pc = "key"
    /\ \E k \in RandBytes :
          Set(self, [run[self] EXCEPT !.pc = "iv", !.key = k])
    /\ UNCHANGED files

\* lines 77, 79: unsigned char iv[16], filled from rand().
DrawIv(self) ==
    /\ run[self].pc = "iv"
    /\ \E v \in RandBytes :
          Set(self, [run[self] EXCEPT !.pc = "encrypt", !.iv = v])
    /\ UNCHANGED files

\* Encrypt with key and iv declared outside the loop: they live on after the
\* chunk they were drawn for.
EncryptKeepsKey(self) ==
    /\ run[self].pc = "encrypt"
    /\ \E fail \in {"none"} \cup EncFailPoints :
          LET r == encrypt_chunk(run[self].buf, run[self].key,
                                 run[self].iv, fail)
          IN  /\ fail # "none" => CanFail(self)
              /\ Set(self, [run[self] EXCEPT
                    !.pc = "write",
                    !.enc_size = r.ret,
                    !.buf = IF r.ret > 0 THEN MemcpyInto(@, r.out, r.ret)
                            ELSE @,
                    !.heapCorrupt = @ \/ (r.ret > run[self].chunk_size),
                    !.liveCtx = IF r.ctxLive THEN @ + 1 ELSE @,
                    !.failed = IF fail = "none" THEN @
                               ELSE @ \cup {"encrypt"},
                    !.faults = IF fail = "none" THEN @ ELSE @ + 1])
    /\ UNCHANGED files

\* lines 80-82: encrypt_chunk and the copy of its output into buf. A copy
\* of more than chunk_size bytes writes past the end of buf. key and iv go
\* out of scope at the end of the branch.
Encrypt(self) ==
    /\ run[self].pc = "encrypt"
    /\ \E fail \in {"none"} \cup EncFailPoints :
          LET r == encrypt_chunk(run[self].buf, run[self].key,
                                 run[self].iv, fail)
          IN  /\ fail # "none" => CanFail(self)
              /\ Set(self, [run[self] EXCEPT
                    !.pc = "write",
                    !.enc_size = r.ret,
                    !.buf = IF r.ret > 0 THEN MemcpyInto(@, r.out, r.ret)
                            ELSE @,
                    !.heapCorrupt = @ \/ (r.ret > run[self].chunk_size),
                    !.liveCtx = IF r.ctxLive THEN @ + 1 ELSE @,
                    !.key = Uninit, !.iv = Uninit,
                    !.failed = IF fail = "none" THEN @
                               ELSE @ \cup {"encrypt"},
                    !.faults = IF fail = "none" THEN @ ELSE @ + 1])
    /\ UNCHANGED files

\* What write(fd, buf, chunk_size) can return: an error, nothing, or a
\* short or full count while the disk has room.
WriteResults(self) ==
    {-1, 0} \cup (IF run[self].okWrites < MaxWrites
                  THEN 1..run[self].chunk_size ELSE {})

\* lines 84-88: the write and the loop's exit.
Write(self) ==
    /\ run[self].pc = "write"
    /\ \E w \in WriteResults(self) :
          IF w <= 0
          THEN /\ Set(self, [run[self] EXCEPT !.pc = "close"])
               /\ UNCHANGED files
          ELSE /\ Set(self, [run[self] EXCEPT !.pc = "fill",
                                !.written = @ + w, !.okWrites = @ + 1])
               /\ files' = IF Exists(run[self].fd)
                           THEN [files EXCEPT ![run[self].fd] = "temp"]
                           ELSE files

\* lines 93-95: close(fd); free(buf); free(outbuf).
Close(self) ==
    /\ run[self].pc = "close"
    /\ Set(self, [run[self] EXCEPT
          !.pc = "remove", !.fd = NoFd,
          !.fdTable = @ \ {run[self].fd}, !.closes = @ + 1,
          !.bufAlloc = FALSE, !.outAlloc = FALSE,
          !.buf = <<>>])
    /\ UNCHANGED files

\* lines 98-102: remove(filename).
Remove(self) ==
    LET name == Filename(run[self].p, run[self].pat)
    IN  /\ run[self].pc = "remove"
        /\ \/ /\ Exists(name)
              /\ Set(self, [run[self] EXCEPT !.pc = "pat_next",
                                             !.unremoved = @ \ {name}])
              /\ files' = [n \in DOMAIN files \ {name} |-> files[n]]
           \/ /\ CanFail(self) \/ ~Exists(name)
              /\ Set(self, [run[self] EXCEPT
                    !.pc = "pat_next", !.unremoved = @ \ {name},
                    !.failed = @ \cup {"remove"},
                    !.faults = IF Exists(name) THEN @ + 1 ELSE @])
              /\ UNCHANGED files

\* line 45: pat++, at the end of the body and after each continue.
PatNext(self) ==
    /\ run[self].pc = "pat_next"
    /\ Set(self, [run[self] EXCEPT !.pc = "pat_loop", !.pat = @ + 1])
    /\ UNCHANGED files

\* Once line 81 has written past the end of buf the behaviour is undefined:
\* the process may go on, or be killed at any later point. A killed process
\* keeps no memory and no descriptor (the one it held is closed with the
\* process); what it did to the directory stays.
Crash(self) ==
    /\ Live(self)
    /\ run[self].heapCorrupt
    /\ Set(self, [Fresh(run[self].argc, run[self].argv2, run[self].chunkArg)
            EXCEPT !.pc = "crashed", !.passes = run[self].passes,
                   !.opens = run[self].opens, !.probed = run[self].probed,
                   !.openLog = run[self].openLog,
                   !.unremoved = run[self].unremoved,
                   !.openOk = run[self].openOk,
                   !.closes = run[self].closes
                                 + Cardinality(run[self].fdTable),
                   !.failed = run[self].failed, !.faults = run[self].faults])
    /\ UNCHANGED files

Step(self) ==
    \/ MainUsage(self)
    \/ MainStart(self)
    \/ Statvfs(self)
    \/ PassLoop(self)
    \/ PatLoop(self)
    \/ Open(self)
    \/ Malloc(self)
    \/ Fill(self)
    \/ DrawKey(self)
    \/ DrawIv(self)
    \/ Encrypt(self)
    \/ Write(self)
    \/ Close(self)
    \/ Remove(self)
    \/ PatNext(self)
    \/ Crash(self)

Next == \E self \in Procs : Step(self)

Spec == Init /\ [][Next]_vars

\* Two invocations on the same target directory at the same time, each with
\* one-byte chunks: the second is given no path, or one pass like the first.
\* The environment injects no failure of its own here: a call fails only
\* through what the other run did to the directory.
Unfailing(r) == [r EXCEPT !.faults = MaxFaults]

InitConc ==
    /\ \E r \in {Fresh(1, <<>>, 1), Fresh(3, <<"1">>, 1)} :
          run = (1 :> Unfailing(Fresh(3, <<"1">>, 1))) @@ (2 :> Unfailing(r))
    /\ files = [n \in {} |-> "temp"]

SpecConc == InitConc /\ [][Next]_vars

\* A process that can take a step takes one: nothing suspends a run.
FairSpec == Spec /\ \A self \in Procs : WF_vars(Step(self))

\* ----------------------------------------------------------------- claims

\* The name of the temp file of the iteration run self is in.
IterFile(self) == Filename(run[self].p, run[self].pat)

AllBytes(b, v) == \A i \in 1..Len(b) : b[i] = v

\* argv[2] reads as a non-negative integer: one or more digits, nothing else.
IsNonNegInteger(s) == Len(s) > 0 /\ \A i \in 1..Len(s) : IsDigit(s[i])

\* C1: when an iteration has ended, however it ended, its temp file does not
\* exist; and when the run has finished no temp file is left in the
\* directory.
CE_C1_TempFileGone ==
    \A self \in Procs :
        /\ run[self].pc = "pat_next" => ~Exists(IterFile(self))
        /\ run[self].pc = "exited" =>
              \A n \in DOMAIN files : files[n] # "temp"

\* C2: when the free-space probe fails the run goes on: the fill loop is
\* entered and every one of the passes x 4 iterations is attempted.
CE_C2_ProbeFailureContinues ==
    \A self \in Procs :
        (run[self].pc = "exited" /\ "statvfs" \in run[self].failed
            /\ run[self].passes > 0)
        => run[self].opens = run[self].passes * NumPatterns

\* C3: a run given a path and a pass count P >= 0 makes exactly P x 4 open
\* attempts, whatever errors its calls report.
CE_C3_ExactlyFourPerPass ==
    \A self \in Procs :
        (run[self].pc = "exited" /\ run[self].argc >= 2
            /\ run[self].passes >= 0)
        => run[self].opens = run[self].passes * NumPatterns

\* C4: a pass-count argument that is no non-negative integer makes the
\* process exit with the failure status, no temp file having been opened.
CE_C4_BadPassCountRejected ==
    \A self \in Procs :
        (run[self].pc = "exited" /\ run[self].argc > 2
            /\ ~IsNonNegInteger(run[self].argv2))
        => (run[self].exitCode = 1 /\ run[self].opens = 0)

\* C5: the process exits with status 1, having neither probed nor opened
\* anything, exactly when the path argument is missing; a run that was given
\* a path and completes exits with status 0, whatever calls failed.
T_C5_ExitStatus ==
    \A self \in Procs :
        run[self].pc = "exited" =>
            IF run[self].argc < 2
            THEN /\ run[self].exitCode = 1
                 /\ ~run[self].probed
                 /\ run[self].opens = 0
            ELSE run[self].exitCode = 0

\* C5's case: a run that opened temp files, saw a call fail, and completed.
W_C5_ExitedAfterFailure ==
    \E self \in Procs :
        /\ run[self].pc = "exited"
        /\ run[self].exitCode = 0
        /\ run[self].opens > 0
        /\ run[self].failed # {}

\* C6: under the encrypted pattern a chunk whose encryption failed is not
\* handed to write.
CE_C6_FailedChunkNotWritten ==
    \A self \in Procs :
        (run[self].pc = "write" /\ run[self].pat = 3)
        => run[self].enc_size > 0

\* C7: when the write loop has ended after K writes that succeeded, the
\* bytes-written counter is K x chunk_size.
CE_C7_WrittenIsKChunks ==
    \A self \in Procs :
        run[self].pc = "close"
        => run[self].written = run[self].okWrites * run[self].chunk_size

\* Run a creates or truncates the file named n in this step.
OpensFile(a, n) ==
    /\ run[a].pc = "open"
    /\ run'[a].pc = "malloc"
    /\ run'[a].fd = n

\* Run a deletes the file named n in this step.
RemovesFile(a, n) ==
    /\ run[a].pc = "remove"
    /\ IterFile(a) = n
    /\ Exists(n)
    /\ n \notin DOMAIN files'

\* C8: of two runs on one directory, neither opens, truncates or deletes a
\* temp file that the other holds open for its own iteration.
CE_C8_NoCollision ==
    [][\A a, b \in Procs :
          (a # b /\ run[b].fd # NoFd)
          => ~(OpensFile(a, run[b].fd) \/ RemovesFile(a, run[b].fd))]_vars

\* C9: under the encrypted pattern the ciphertext copied into buf is no
\* longer than buf (chunk_size bytes), and no longer than outbuf.
CE_C9_CopyWithinCapacity ==
    \A self \in Procs :
        (run[self].pc = "write" /\ run[self].pat = 3)
        => /\ run[self].enc_size <= run[self].chunk_size
           /\ run[self].enc_size <= OutCap(run[self].chunk_size)

\* C10: every buffer handed to write holds only 0x00 bytes in an iteration
\* of pattern 0 and only 0xFF bytes in an iteration of pattern 1.
T_C10_ZerosAndOnes ==
    \A self \in Procs :
        run[self].pc = "write" =>
            /\ Len(run[self].buf) = run[self].chunk_size
            /\ run[self].pat = 0 => AllBytes(run[self].buf, 0)
            /\ run[self].pat = 1 => AllBytes(run[self].buf, 255)

\* C10's case: a later chunk of a "ones" iteration of a later pass, after
\* the random and encrypted iterations of the pass before.
W_C10_OnesInLaterPass ==
    \E self \in Procs :
        /\ run[self].pc = "write"
        /\ run[self].pat = 1
        /\ run[self].p >= 1
        /\ run[self].okWrites >= 1
        /\ run[self].chunk_size > 1

\* Run self leaves its iteration in this step because a buffer is missing.
AllocFailureStep(self) ==
    /\ run[self].pc = "malloc"
    /\ run'[self].pc = "pat_next"

\* C11: when an allocation fails after the temp file was created, the
\* iteration closes the descriptor, removes the temp file, writes nothing
\* and goes on to the next pattern.
CE_C11_AllocFailureCleansUp ==
    [][\A self \in Procs :
          AllocFailureStep(self) =>
              /\ run'[self].fd = NoFd
              /\ IterFile(self) \notin DOMAIN files'
              /\ run'[self].written = run[self].written
              /\ run'[self].pat = run[self].pat]_vars

\* Run self creates or truncates, or deletes, the file named n in this step.
Clobbers(self, n) == OpensFile(self, n) \/ RemovesFile(self, n)

\* C14: the temp file is created exclusively: when a file of the
\* iteration's name exists already the open fails, and the file that was
\* there before the run keeps its content and stays in the directory.
CE_C14_ExclusiveCreate ==
    [][\A self \in Procs :
          /\ (run[self].pc = "open" /\ Exists(IterFile(self))
                /\ run'[self].pc # "open")
             => (run'[self].pc = "pat_next" /\ run'[self].fd = NoFd)
          /\ \A n \in DOMAIN files :
                files[n] = "original"
                => (n \in DOMAIN files' /\ files'[n] = "original")]_vars

\* C19: no cipher context outlives the call of encrypt_chunk that created
\* it, whether the call succeeded or failed: between chunks none is live.
CE_C19_NoLiveContext ==
    \A self \in Procs : run[self].liveCtx = 0

NoDuplicates(log) ==
    \A i, j \in 1..Len(log) : i # j => log[i] # log[j]

\* Run self's call of open fails in this step.
OpenFailureStep(self) ==
    /\ run[self].pc = "open"
    /\ Len(run'[self].openLog) = Len(run[self].openLog) + 1
    /\ run'[self].fd = NoFd

\* C12: a failed iteration is skipped once and not tried again. A failed
\* open is followed by no allocation, write, close or remove of that
\* iteration; once an iteration has ended (also by a failed open or a failed
\* remove) the run's next step takes it to the next pattern, touching no
\* file and no descriptor; and no name is passed to open twice.
T_C12_SkippedOnce ==
    [][\A self \in Procs :
          /\ OpenFailureStep(self) =>
                /\ run'[self].pc = "pat_next"
                /\ run'[self].fdTable = run[self].fdTable
                /\ ~run'[self].bufAlloc /\ ~run'[self].outAlloc
                /\ run'[self].closes = run[self].closes
                /\ run'[self].unremoved = run[self].unremoved
                /\ files' = files
          /\ (run[self].pc = "pat_next" /\ run'[self] # run[self]) =>
                \/ run'[self].pc = "crashed"
                \/ /\ run'[self].pc = "pat_loop"
                   /\ run'[self].p = run[self].p
                   /\ run'[self].pat = run[self].pat + 1
                   /\ run'[self].openLog = run[self].openLog
                   /\ run'[self].fdTable = run[self].fdTable
                   /\ run'[self].closes = run[self].closes
                   /\ files' = files
          /\ NoDuplicates(run'[self].openLog)]_vars

\* C12's case: the open of one iteration failed and the run has since opened
\* the file of the next.
W_C12_OpenedAfterFailedOpen ==
    \E self \in Procs :
        /\ "open" \in run[self].failed
        /\ run[self].pc = "malloc"
        /\ Len(run[self].openLog) >= 2
        /\ run[self].fd = run[self].openLog[Len(run[self].openLog)]

\* Run self's call of write returns in this step.
WriteStep(self) ==
    /\ run[self].pc = "write"
    /\ run'[self].pc \in {"fill", "close"}

\* The write loop of run self ends at the first write that returns zero or
\* less, and goes on after every write that returns more, however little.
WriteLoopEndsOnlyAtFailure(self) ==
    /\ WriteStep(self) =>
          IF run'[self].written > run[self].written
          THEN run'[self].pc = "fill" /\ run'[self].fd = run[self].fd
          ELSE run'[self].pc = "close"
    /\ (run[self].pc \in {"close", "remove"} /\ run'[self].pc # "crashed") =>
          run'[self].written = run[self].written

\* C13: the write loop ends at the first write returning zero or less and
\* writes no more to that file, a positive result never ends it; and, every
\* iteration's writes failing in the end, the run reaches completion.
CE_C13_LoopEndsAndRunCompletes ==
    /\ [][\A self \in Procs : WriteLoopEndsOnlyAtFailure(self)]_vars
    /\ \A self \in Procs :
          run[self].pc = "main" ~> run[self].pc = "exited"

\* C15: under the encrypted pattern every chunk has a key and an iv of its
\* own: they are drawn after the chunk's plaintext, the key before the iv,
\* they exist when encrypt_chunk is called, and neither exists any longer
\* once that call has returned, so the next call has to draw new ones.
T_C15_KeyAndIvPerChunk ==
    \A self \in Procs :
        /\ run[self].pc \in {"key", "iv", "encrypt"} =>
              /\ run[self].pat = 3
              /\ run[self].buf \in RandomFills(run[self].chunk_size)
        /\ run[self].key \in RandBytes <=> run[self].pc \in {"iv", "encrypt"}
        /\ run[self].iv \in RandBytes <=> run[self].pc = "encrypt"
        /\ run[self].key \in RandBytes \cup {Uninit}
        /\ run[self].iv \in RandBytes \cup {Uninit}

\* C15's case: encrypt_chunk is about to be called for a later chunk of a
\* later pass, after earlier calls in this file and in earlier files.
W_C15_LaterChunkLaterPass ==
    \E self \in Procs :
        /\ run[self].pc = "encrypt"
        /\ run[self].okWrites >= 1
        /\ run[self].p >= 1

\* The name of the i-th iteration of a run: passes in order and, within a
\* pass, the patterns 0 (zeros), 1 (ones), 2 (random), 3 (encrypted).
NthFile(i) == Filename((i - 1) \div NumPatterns, (i - 1) % NumPatterns)

\* The names run self has passed to open are those of the first iterations,
\* in order.
OpenedInOrder(self) ==
    \A i \in 1..Len(run[self].openLog) : run[self].openLog[i] = NthFile(i)

\* Inside an iteration, run self works on the file named after its pass and
\* pattern and hands write the bytes of that pattern.
UsesOwnFileAndPattern(self) ==
    /\ run[self].pc \in {"malloc", "fill", "key", "iv", "encrypt",
                         "write", "close"} =>
          /\ run[self].fd = IterFile(self)
          /\ run[self].fd = run[self].openLog[Len(run[self].openLog)]
    /\ run[self].pc = "write" =>
          /\ run[self].pat = 0 => AllBytes(run[self].buf, 0)
          /\ run[self].pat = 1 => AllBytes(run[self].buf, 255)
          /\ run[self].pat = 2 =>
                run[self].buf \in RandomFills(run[self].chunk_size)

\* C16: the iterations run in the order of passes and, within a pass, of
\* pattern indices; each uses the file named after its pass and pattern
\* and the pattern of its index; and when the next file is about to be
\* opened every earlier file of the run has been closed and passed to
\* remove.
CE_C16_OrderedIterations ==
    \A self \in Procs :
        /\ OpenedInOrder(self)
        /\ UsesOwnFileAndPattern(self)
        /\ run[self].pc = "open" =>
              /\ run[self].fdTable = {}
              /\ run[self].unremoved = {}

\* Where a run is not inside the body of an iteration.
OutsideBody == {"pass_loop", "pat_loop", "open", "pat_next", "exited"}

\* C17: every buffer an iteration allocated is released when the iteration
\* ends, after the write loop as on the allocation-failure path, also when
\* one of the two allocations had succeeded; none is held outside an
\* iteration's body, and inside the write loop exactly the two are.
T_C17_BuffersReleased ==
    \A self \in Procs :
        /\ run[self].pc \in OutsideBody \cup {"malloc", "remove"} =>
              ~run[self].bufAlloc /\ ~run[self].outAlloc
        /\ run[self].pc \in {"fill", "key", "iv", "encrypt", "write",
                             "close"} =>
              run[self].bufAlloc /\ run[self].outAlloc

\* C17's case: an iteration has ended on the allocation-failure path, buf
\* having been allocated and outbuf not.
W_C17_OneAllocationFailed ==
    \E self \in Procs :
        /\ run[self].pc = "pat_next"
        /\ "malloc" \in run[self].failed
        /\ run[self].got = <<TRUE, FALSE>>

\* C18: a run holds at most one descriptor open; every descriptor a
\* successful open returned is closed once, before the next open and before
\* the run ends, on the allocation-failure path too; and remove is called
\* only when the descriptor has been closed.
T_C18_DescriptorsClosedOnce ==
    \A self \in Procs :
        /\ Cardinality(run[self].fdTable) <= 1
        /\ run[self].closes + Cardinality(run[self].fdTable)
              = run[self].openOk
        /\ run[self].fdTable = IF run[self].fd = NoFd THEN {}
                               ELSE {run[self].fd}
        /\ run[self].pc \in OutsideBody \cup {"remove"} =>
              run[self].fdTable = {}

\* C18's case: the next file is about to be opened after one iteration ended
\* by write exhaustion and one on the allocation-failure path.
W_C18_ClosedOnBothPaths ==
    \E self \in Procs :
        /\ run[self].pc = "open"
        /\ "malloc" \in run[self].failed
        /\ run[self].openOk >= 2
        /\ run[self].closes = run[self].openOk

====
